---------------------------- MODULE Spec2Model ----------------------------
(***************************************************************************)
(* EMG signal-conditioning firmware (mr-fool/emg_drone_research).          *)
(*                                                                         *)
(* Three sketches share one design: the 4-channel drone sketch             *)
(* (arduino_emg_code.ino), the 2-channel crosshair sketch and the          *)
(* 1-channel vertical sketch.  The variable `variant` says which sketch a  *)
(* behaviour runs; every operator that differs between the sketches takes  *)
(* the variant as its first argument.                                      *)
(*                                                                         *)
(* Numbers.  A C `float` x is represented by the integer nearest to        *)
(* x * SCALE (fixed point).  Every assignment to a float and every float   *)
(* return value rounds once, to nearest, as the hardware does; a constant  *)
(* such as 0.95 is the exact ratio 95/100.  `int` values are integers.     *)
(* Time is in microseconds, millis() is micros() \div 1000.                *)
(***************************************************************************)
EXTENDS Integers, Sequences, FiniteSets

(***************************************************************************)
(* Bounds of the model.  BUFFER_SIZE, CALIBRATION_SAMPLES and              *)
(* QUALITY_CHECK_INTERVAL carry the source's names but are scaled down     *)
(* (128/64, 1000/500 and 1000 ms in the sketches).                         *)
(***************************************************************************)
SCALE == 100

BUFFER_SIZE == 2

CALIBRATION_SAMPLES == 2

QUALITY_CHECK_INTERVAL == 3

MaxCycles == 6

(***************************************************************************)
(* Program constants.                                                      *)
(***************************************************************************)
SAMPLE_RATE == 500

ADC_MAX == 1023

Variants == {"four", "two", "one"}

NumChannels(v) == CASE v = "four" -> 4 [] v = "two" -> 2 [] OTHER -> 1

Channels(v) == 1..NumChannels(v)

\* <<F(1), ..., F(NumChannels(v))>>: one value per channel
PerChannel(v, F(_)) ==
    CASE v = "four" -> <<F(1), F(2), F(3), F(4)>>
      [] v = "two"  -> <<F(1), F(2)>>
      [] OTHER      -> <<F(1)>>

\* 1000000 / SAMPLE_RATE, the nominal period in microseconds
Period == 1000000 \div SAMPLE_RATE

(***************************************************************************)
(* Fixed-point arithmetic.                                                 *)
(***************************************************************************)
Abs(x) == IF x < 0 THEN -x ELSE x

Max(a, b) == IF a > b THEN a ELSE b

\* n / d rounded to nearest (d > 0), symmetric about 0
RoundDiv(n, d) ==
    IF n >= 0 THEN (2 * n + d) \div (2 * d)
    ELSE -((2 * (-n) + d) \div (2 * d))

\* a * c / 10^8 for a coefficient c written with 8 decimals, evaluated in
\* three steps so that no intermediate product leaves 32 bits
MulCoef(a, c) ==
    LET s  == IF (a < 0) = (c < 0) THEN 1 ELSE -1
        m  == Abs(a)
        k  == Abs(c)
        c2 == k \div 1000000
        c1 == (k \div 1000) % 1000
        c0 == k % 1000
        t0 == RoundDiv(m * c0, 1000)
        t1 == RoundDiv(m * c1 + t0, 1000)
    IN  s * RoundDiv(m * c2 + t1, 100)

\* floor of the square root of n >= 0, by bisection on lo..hi
RECURSIVE SqrtBetween(_, _, _)
SqrtBetween(n, lo, hi) ==
    IF lo >= hi THEN lo
    ELSE LET mid == (lo + hi + 1) \div 2
         IN  IF mid * mid <= n THEN SqrtBetween(n, mid, hi)
             ELSE SqrtBetween(n, lo, mid - 1)

ISqrt(n) == SqrtBetween(n, 0, IF n < 46340 THEN n ELSE 46340)

\* sqrt(x) * k for a fixed-point x >= 0
SqrtScaled(x, k) == k * ISqrt(x * SCALE)

RECURSIVE SumSeq(_)
SumSeq(s) == IF s = <<>> THEN 0 ELSE Head(s) + SumSeq(Tail(s))

(***************************************************************************)
(* Per-sketch configuration (#define lines and literals).                  *)
(***************************************************************************)
\* BASELINE_ALPHA as <<numerator, denominator>>
BASELINE_ALPHA(v) == IF v = "four" THEN <<95, 100>> ELSE <<98, 100>>

\* DYNAMIC_THRESHOLD_MULTIPLIER as <<numerator, denominator>>
DYNAMIC_THRESHOLD_MULTIPLIER(v) ==
    CASE v = "four" -> <<25, 10>> [] v = "two" -> <<15, 10>> [] OTHER -> <<13, 10>>

\* the factor applied to the envelope after the envelope detector
\* (`*= 10`, SIGNAL_AMPLIFICATION 50.0, SIGNAL_AMPLIFICATION 20.0)
SIGNAL_AMPLIFICATION(v) ==
    CASE v = "four" -> 10 [] v = "two" -> 50 [] OTHER -> 20

\* the gain inside the envelope detector (2.0, 3.0, 2.5)
EnvelopeGain(v) ==
    CASE v = "four" -> <<2, 1>> [] v = "two" -> <<3, 1>> [] OTHER -> <<5, 2>>

\* the scale of the square-root compression; 0 where the sketch has none
SqrtGain(v) == CASE v = "four" -> 0 [] v = "two" -> 5 [] OTHER -> 4

\* `output *= 2.0` after thresholding in the 2-channel sketch
PostGain(v) == IF v = "two" THEN 2 ELSE 1

\* the decay of the peak hold (0.999, 0.995, 0.995)
PeakDecay(v) == IF v = "four" THEN <<999, 1000>> ELSE <<995, 1000>>

MIN_SNR(v) == IF v = "four" THEN 3 ELSE 2

\* mutant: setup() does not wait
SetupDelayNone(v) == 0

\* delay() at the end of setup(), in ms.  The sketches wait 2000, 2000 and
\* 3000 ms with 1000, 500 and 500 calibration samples: 2, 4 and 6 ms per
\* calibration sample, the ratio the scaled model keeps.
SetupDelayMs(v) ==
    (CASE v = "four" -> 2 [] v = "two" -> 4 [] OTHER -> 6) * CALIBRATION_SAMPLES

(***************************************************************************)
(* Channel filter: four cascaded second-order sections.  A section is      *)
(* <<a1, a2, b0, b1, b2>> in units of 10^-8 and computes                   *)
(*   x = in - a1*z1 - a2*z2;  out = b0*x + b1*z1 + b2*z2;  z2 = z1; z1 = x *)
(***************************************************************************)
One8 == 100000000

FilterThrottle ==
    << <<  5159732, 36347401, 1856301,  3712602, 1856301>>,
       <<-53945795, 39764934, One8, -2 * One8, One8>>,
       << 47319594, 70744137, One8,  2 * One8, One8>>,
       <<-100211112, 74520226, One8, -2 * One8, One8>> >>

FilterYaw ==
    << <<  4892389, 35654096, 1947178,  3894356, 1947178>>,
       <<-52158473, 40192847, One8, -2 * One8, One8>>,
       << 45832156, 71245678, One8,  2 * One8, One8>>,
       <<-98754321, 75123456, One8, -2 * One8, One8>> >>

FilterPitch ==
    << <<  4234567, 34567891, 2123456,  4246912, 2123456>>,
       <<-50123456, 41234567, One8, -2 * One8, One8>>,
       << 43456789, 72345678, One8,  2 * One8, One8>>,
       <<-96543210, 76543210, One8, -2 * One8, One8>> >>

FilterRoll ==
    << <<  3876543, 33456789, 2345678,  4691356, 2345678>>,
       <<-48765432, 42345678, One8, -2 * One8, One8>>,
       << 41234567, 73456789, One8,  2 * One8, One8>>,
       <<-94321098, 78901234, One8, -2 * One8, One8>> >>

\* the coefficients of channel ch of sketch v
FilterCoefs(v, ch) ==
    CASE ch = 1 -> FilterThrottle
      [] ch = 2 -> FilterYaw
      [] ch = 3 -> FilterPitch
      [] OTHER  -> FilterRoll

\* one section: input `in`, registers zz = <<z1, z2>>;
\* the result is <<out, <<z1', z2'>> >>
Biquad(c, in, zz) ==
    LET x   == in - MulCoef(zz[1], c[1]) - MulCoef(zz[2], c[2])
        out == MulCoef(x, c[3]) + MulCoef(zz[1], c[4]) + MulCoef(zz[2], c[5])
    IN  <<out, <<x, zz[1]>> >>

\* EMGFilter_*: the cascade; regs is <<zz1, zz2, zz3, zz4>>;
\* the result is <<filtered, regs'>>
EMGFilter(cs, input, regs) ==
    LET s1 == Biquad(cs[1], input, regs[1])
        s2 == Biquad(cs[2], s1[1], regs[2])
        s3 == Biquad(cs[3], s2[1], regs[3])
        s4 == Biquad(cs[4], s3[1], regs[4])
    IN  <<s4[1], <<s1[2], s2[2], s3[2], s4[2]>> >>


(***************************************************************************)
(* Envelope detector, calibration, threshold, peak, quality: the pure      *)
(* parts of the stages, one operator per function of the sketches.         *)
(***************************************************************************)
\* mutant: the abs() is missing, the sample is truncated with its sign
AbsEmgSigned(filtered) ==
    IF filtered < 0 THEN -(Abs(filtered) \div SCALE) ELSE filtered \div SCALE

\* abs(filtered) passed to an `int` parameter: the magnitude, truncated
AbsEmg(filtered) == Abs(filtered) \div SCALE

\* get*Envelope: the push into the circular buffer (index is the C index,
\* 0-based) and the returned envelope (sum / BUFFER_SIZE) * gain
\* mutant: the evicted value is not subtracted from the running sum
PushSumNoEvict(buf, idx, s, abs_emg) == s + abs_emg

\* mutant: the value subtracted is the one in the slot after the index
PushSumNextSlot(buf, idx, s, abs_emg) ==
    s - buf[((idx + 1) % BUFFER_SIZE) + 1] + abs_emg

PushSum(buf, idx, s, abs_emg) == s - buf[idx + 1] + abs_emg

\* mutant: the index is advanced before the store, the new value lands in
\* the slot after the one subtracted
PushBufferNextSlot(buf, idx, abs_emg) ==
    [buf EXCEPT ![((idx + 1) % BUFFER_SIZE) + 1] = abs_emg]

PushBuffer(buf, idx, abs_emg) == [buf EXCEPT ![idx + 1] = abs_emg]

PushIndex(idx) == (idx + 1) % BUFFER_SIZE

EnvelopeOf(v, s) ==
    RoundDiv(s * SCALE * EnvelopeGain(v)[1], BUFFER_SIZE * EnvelopeGain(v)[2])

\* mutant: the amplification after the envelope detector is missing
AmplifyUnity(v, env) == env

\* the envelope as loop() holds it after `envelope *= amplification`
Amplify(v, env) == env * SIGNAL_AMPLIFICATION(v)

\* updateCalibration: the accumulation, and the mean at the last sample
Accumulate(acc, env) == acc + env

\* mutant: `>` for `>=`, the transition comes one cycle late
CalibrationDoneLate(counter) == counter > CALIBRATION_SAMPLES

CalibrationDone(counter) == counter >= CALIBRATION_SAMPLES

MeanOf(acc) == RoundDiv(acc, CALIBRATION_SAMPLES)

\* noise_floor = baseline * 1.1 (1-channel sketch)
NoiseFloorOf(b) == RoundDiv(b * 11, 10)

\* the progress line of the 1-channel sketch: every fifth of the
\* calibration (calibration_counter % 100 == 0 with 500 samples)
ProgressDue(v, counter) == v = "one" /\ (counter * 5) % CALIBRATION_SAMPLES = 0

\* mutant: the envelope enters with weight 1 instead of (1 - alpha)
UpdateBaselineFullWeight(v, b, env) ==
    LET a == BASELINE_ALPHA(v)
    IN  RoundDiv(a[1] * b + a[2] * env, a[2])

\* updateBaselines: alpha * baseline + (1 - alpha) * envelope
UpdateBaseline(v, b, env) ==
    LET a == BASELINE_ALPHA(v)
    IN  RoundDiv(a[1] * b + (a[2] - a[1]) * env, a[2])

\* mutant: the multiplier term is missing, the threshold is the baseline
ThresholdNoMultiplier(v, b, nf) == IF v = "one" THEN Max(b, nf) ELSE b

\* mutant: the noise floor is not applied in the 1-channel sketch
ThresholdNoFloor(v, b, nf) ==
    LET m == DYNAMIC_THRESHOLD_MULTIPLIER(v)
    IN  RoundDiv(b * m[2] + b * m[1], m[2])

\* float threshold = baseline + (baseline * MULTIPLIER), floored by the
\* noise floor in the 1-channel sketch
Threshold(v, b, nf) ==
    LET m == DYNAMIC_THRESHOLD_MULTIPLIER(v)
        t == RoundDiv(b * m[2] + b * m[1], m[2])
    IN  IF v = "one" THEN Max(t, nf) ELSE t

\* mutant: no gate, the difference is passed on whatever its sign
RawOutputUngated(v, signal, b, nf) == signal - b

\* mutant: the subtraction is the wrong way round
RawOutputSwapped(v, signal, b, nf) ==
    IF signal > Threshold(v, b, nf) THEN b - signal ELSE 0

\* (signal > threshold) ? (signal - baseline) : 0
RawOutput(v, signal, b, nf) ==
    IF signal > Threshold(v, b, nf) THEN signal - b ELSE 0

\* applyAdaptiveThreshold: the value it returns
ApplyAdaptiveThreshold(v, signal, b, nf) ==
    LET o == RawOutput(v, signal, b, nf)
    IN  IF SqrtGain(v) > 0 /\ o > 0 THEN SqrtScaled(o, SqrtGain(v)) ELSE o

\* the output loop() passes on: the returned value times the post-gain
OutputOf(v, signal, b, nf) == ApplyAdaptiveThreshold(v, signal, b, nf) * PostGain(v)

\* mutant: the peak is held, not decayed
UpdatePeakNoDecay(v, pk, out) == Max(pk, out)

\* updatePeakTracking: max(peak * decay, output)
UpdatePeak(v, pk, out) ==
    LET d == PeakDecay(v) IN Max(RoundDiv(pk * d[1], d[2]), out)

SNR_SENTINEL == 999

\* mutant: the guarded case returns 0 instead of the sentinel
CalculateSNRZero(pk, b) ==
    IF b = 0 THEN 0 ELSE RoundDiv(pk * SCALE, b)

\* calculateSNR
CalculateSNR(pk, b) ==
    IF b = 0 THEN SNR_SENTINEL * SCALE ELSE RoundDiv(pk * SCALE, b)

\* mutant: `<=` for `<`, an SNR of exactly MIN_SNR is reported low
QualityTokenAtMost(v, snrs) ==
    IF \E i \in 1..Len(snrs) : snrs[i] <= MIN_SNR(v) * SCALE
    THEN "LOW_QUALITY" ELSE "GOOD"

\* the classification token of a QUALITY line
QualityToken(v, snrs) ==
    IF \E i \in 1..Len(snrs) : snrs[i] < MIN_SNR(v) * SCALE
    THEN "LOW_QUALITY" ELSE "GOOD"

\* mutant: `>=` for `>`, the check fires one millisecond early
QualityDueAtInterval(ms, last) == ms - last >= QUALITY_CHECK_INTERVAL

\* the quality check is due: millis() - last_quality_check > INTERVAL
QualityDue(ms, last) == ms - last > QUALITY_CHECK_INTERVAL

(***************************************************************************)
(* Telemetry.  A line of the serial stream is a record; Serial.print(x, d) *)
(* prints x with d decimals, here the integer nearest to x * 10^d.         *)
(***************************************************************************)
Pow10(d) == CASE d = 0 -> 1 [] d = 1 -> 10 [] d = 2 -> 100 [] OTHER -> 1000

PrintFloat(x, d) ==
    LET m == Abs(x)
        r == (m \div SCALE) * Pow10(d) + RoundDiv((m % SCALE) * Pow10(d), SCALE)
    IN  IF x < 0 THEN -r ELSE r

\* decimals of the EMG line: 2 in the 4-channel sketch, 3 in the others
EmgDigits(v) == IF v = "four" THEN 2 ELSE 3

PrintAll(xs, d) == [i \in 1..Len(xs) |-> PrintFloat(xs[i], d)]

Line(tag, ts, vals, bases, token) ==
    [tag |-> tag, ts |-> ts, vals |-> vals, bases |-> bases, token |-> token]

TextLine(tag) == Line(tag, 0, <<>>, <<>>, "")

\* sendResearchData / sendEnhancedData / sendData
EmgLine(v, ms, outs, bs) ==
    Line("EMG", ms, PrintAll(outs, EmgDigits(v)), PrintAll(bs, EmgDigits(v)), "")

\* mutant: `&&` for `||`, the debug line needs every channel above 0.1
MovementDueAllChannels(v, outs) ==
    v # "four" /\ \A i \in 1..Len(outs) : outs[i] * 10 > SCALE

\* the debug line after the EMG line (2- and 1-channel sketches):
\* some output > 0.1
MovementDue(v, outs) ==
    v # "four" /\ \E i \in 1..Len(outs) : outs[i] * 10 > SCALE

MovementLine(v, outs) ==
    Line(IF v = "two" THEN "MOVEMENT_DETECTED" ELSE "MOVEMENT_UP",
         0, PrintAll(outs, 2), <<>>, "")

SendData(v, ms, outs, bs) ==
    <<EmgLine(v, ms, outs, bs)>> \o
    (IF MovementDue(v, outs) THEN <<MovementLine(v, outs)>> ELSE <<>>)

\* One Serial.print call: the text it writes ("#" for a number) and whether
\* it is a println.
Tok(text, nl) == [text |-> text, nl |-> nl]

\* n times `Serial.print(","); Serial.print(x, d);`
Fields(n) ==
    [i \in 1..(2 * n) |-> IF i % 2 = 1 THEN Tok(",", FALSE) ELSE Tok("#", FALSE)]

\* mutant: the EMG record ends in print, not println
LinePrintsNoNewline(v, line) ==
    CASE line.tag = "EMG" ->
           <<Tok("EMG,", FALSE), Tok("#", FALSE)>> \o
           Fields(Len(line.vals) + Len(line.bases)) \o <<Tok("", FALSE)>>
      [] OTHER -> <<Tok(line.tag, TRUE)>>

\* the print calls that write one line, in the order the sketch makes them
LinePrints(v, line) ==
    CASE line.tag = "EMG" ->
           <<Tok("EMG,", FALSE), Tok("#", FALSE)>> \o
           Fields(Len(line.vals) + Len(line.bases)) \o <<Tok("", TRUE)>>
      [] line.tag = "QUALITY" ->
           <<Tok("QUALITY,", FALSE), Tok("#", FALSE)>> \o
           Fields(Len(line.vals) - 1) \o
           <<Tok(IF line.token = "GOOD" THEN ",GOOD" ELSE ",LOW_QUALITY", FALSE),
             Tok("", TRUE)>>
      [] line.tag = "MOVEMENT_DETECTED" ->
           <<Tok("MOVEMENT_DETECTED,LR=", FALSE), Tok("#", FALSE),
             Tok(",UD=", FALSE), Tok("#", TRUE)>>
      [] line.tag = "MOVEMENT_UP" ->
           <<Tok("MOVEMENT_UP,", FALSE), Tok("#", TRUE)>>
      [] line.tag = "PROGRESS" ->
           <<Tok("Calibration progress: ", FALSE), Tok("#", FALSE), Tok("%", TRUE)>>
      [] line.tag = "BASELINES" ->
           (CASE v = "four" ->
                   <<Tok("Baselines: T=", FALSE), Tok("#", FALSE),
                     Tok(", Y=", FALSE), Tok("#", FALSE),
                     Tok(", P=", FALSE), Tok("#", FALSE),
                     Tok(", R=", FALSE), Tok("#", TRUE)>>
              [] v = "two" ->
                   <<Tok("Enhanced Baselines: LR=", FALSE), Tok("#", FALSE),
                     Tok(", UD=", FALSE), Tok("#", TRUE)>>
              [] OTHER ->
                   <<Tok("Baseline: ", FALSE), Tok("#", FALSE),
                     Tok(", Noise floor: ", FALSE), Tok("#", TRUE)>>)
      [] line.tag = "BLANK" -> <<Tok("", TRUE)>>
      [] OTHER -> <<Tok(line.tag, TRUE)>>

\* the print calls of a sequence of lines
RECURSIVE Stream(_, _)
Stream(v, lines) ==
    IF lines = <<>> THEN <<>>
    ELSE LinePrints(v, Head(lines)) \o Stream(v, Tail(lines))

\* checkSignalQuality
QualityLine(v, pks, bs) ==
    LET snrs == [i \in 1..Len(pks) |-> CalculateSNR(pks[i], bs[i])]
    IN  Line("QUALITY", 0, PrintAll(snrs, 2), <<>>, QualityToken(v, snrs))

\* mutant: the transition reports the baselines without the
\* CALIBRATION_COMPLETE line
CompleteLinesNoBanner(v, bs, nf) ==
    <<Line("BASELINES", 0,
           PrintAll(IF v = "one" THEN <<bs[1], nf>> ELSE bs, 2), <<>>, "")>>

\* what updateCalibration prints at the transition
CompleteLines(v, bs, nf) ==
    <<TextLine("CALIBRATION_COMPLETE"),
      Line("BASELINES", 0,
           PrintAll(IF v = "one" THEN <<bs[1], nf>> ELSE bs, 2), <<>>, "")>> \o
    (CASE v = "four" -> <<>>
       [] v = "two"  -> <<TextLine("GUIDE"), TextLine("GUIDE"),
                          TextLine("GUIDE"), TextLine("GUIDE")>>
       [] OTHER      -> <<TextLine("BLANK"), TextLine("GUIDE"), TextLine("GUIDE"),
                          TextLine("GUIDE"), TextLine("GUIDE")>>)

ProgressLine(counter) ==
    Line("PROGRESS", 0, <<(counter * 100) \div CALIBRATION_SAMPLES>>, <<>>, "")


(***************************************************************************)
(* State.                                                                  *)
(***************************************************************************)
VARIABLES
    variant,              \* which sketch runs
    clock,                \* micros() at the latest poll (end of setup() at first)
    past,                 \* static unsigned long past, in loop()
    timer,                \* static long timer, in loop()
    z,                    \* the filters' static delay registers, per channel
    buffer,               \* *_buffer[BUFFER_SIZE], per channel
    index,                \* *_index, per channel
    sum,                  \* *_sum, per channel
    baseline,             \* baseline_*, per channel
    noise_floor,          \* noise_floor (1-channel sketch; 0 and unused elsewhere)
    peak,                 \* *_peak, per channel
    is_calibrated,
    calibration_counter,
    last_quality_check,
    serial,               \* the lines the latest poll wrote to Serial
    cycles,               \* observer: sample cycles run so far
    cyc,                  \* observer: what the latest poll computed
    pushed,               \* observer: every value pushed into each envelope buffer
    calEnvs               \* observer: the envelopes seen by updateCalibration

vars == <<variant, clock, past, timer, z, buffer, index, sum, baseline,
          noise_floor, peak, is_calibrated, calibration_counter,
          last_quality_check, serial, cycles, cyc, pushed, calEnvs>>

\* analogRead(): the readings the model draws from, the two rails and,
\* where one channel keeps the branching small, a low reading between them
LowReading == 230

RawValues(v) == IF v = "one" THEN {0, LowReading, ADC_MAX} ELSE {0, ADC_MAX}

\* one reading per channel; in the 4-channel sketch the model drives pitch
\* and roll with the readings of throttle and yaw
RawInputs(v) ==
    {r \in [Channels(v) -> RawValues(v)] :
        v = "four" => (r[3] = r[1] /\ r[4] = r[2])}

\* the time between two polls, in microseconds.  With polls one sampling
\* period apart the timer never recovers the debt setup() left, so under
\* Spec every poll runs a sample cycle; SpecSched below polls at other
\* intervals and takes Idle too.
Intervals == {Period}

ZeroRegs == << <<0, 0>>, <<0, 0>>, <<0, 0>>, <<0, 0>> >>

Zeros(v) == PerChannel(v, LAMBDA ch : 0)

\* the observer record of a poll that ran no cycle
IdleCycle(v) ==
    [stage |-> "idle", raw |-> Zeros(v), filtered |-> Zeros(v),
     abs_emg |-> Zeros(v), evicted |-> Zeros(v), slot |-> Zeros(v),
     envelope |-> Zeros(v), baseBefore |-> Zeros(v), threshold |-> Zeros(v),
     rawOut |-> Zeros(v), output |-> Zeros(v), peakBefore |-> Zeros(v),
     quality |-> FALSE]

Init ==
    /\ variant \in Variants
    /\ clock = SetupDelayMs(variant) * 1000
    /\ past = 0
    /\ timer = 0
    /\ z = PerChannel(variant, LAMBDA ch : ZeroRegs)
    /\ buffer = PerChannel(variant, LAMBDA ch : [i \in 1..BUFFER_SIZE |-> 0])
    /\ index = Zeros(variant)
    /\ sum = Zeros(variant)
    /\ baseline = Zeros(variant)
    /\ noise_floor = 0
    /\ peak = Zeros(variant)
    /\ is_calibrated = FALSE
    /\ calibration_counter = 0
    /\ last_quality_check = 0
    /\ serial = <<>>
    /\ cycles = 0
    /\ cyc = IdleCycle(variant)
    /\ pushed = PerChannel(variant, LAMBDA ch : <<>>)
    /\ calEnvs = PerChannel(variant, LAMBDA ch : <<>>)

(***************************************************************************)
(* loop().  One poll: the scheduler, and when the timer has run out one    *)
(* sample cycle: read, filter, envelope, then calibration or               *)
(* baseline / threshold / peak / quality / data line.                      *)
(***************************************************************************)
\* mutant: `<=` for `<`, a timer at exactly 0 triggers
TimerExpiredAtZero(t) == t <= 0

\* the scheduler's test, `if (timer < 0)`
TimerExpired(t) == t < 0

\* mutant: the calibration branch is taken whatever is_calibrated says
InCalibrationAlways(calibrated) == TRUE

\* `if (!is_calibrated) { updateCalibration(...); return; }`
InCalibration(calibrated) == ~calibrated

\* What one sample cycle computes from the state and the readings `raw`:
\* every local of loop() from analogRead() on, both branches.
Sample(raw) ==
    LET v        == variant
        flt      == PerChannel(v, LAMBDA ch :
                        EMGFilter(FilterCoefs(v, ch), raw[ch] * SCALE, z[ch]))
        filtered == PerChannel(v, LAMBDA ch : flt[ch][1])
        abs_emg  == PerChannel(v, LAMBDA ch : AbsEmg(filtered[ch]))
        sum1     == PerChannel(v, LAMBDA ch :
                        PushSum(buffer[ch], index[ch], sum[ch], abs_emg[ch]))
        envelope == PerChannel(v, LAMBDA ch : Amplify(v, EnvelopeOf(v, sum1[ch])))
        \* calibration branch
        counter1 == calibration_counter + 1
        acc      == PerChannel(v, LAMBDA ch : Accumulate(baseline[ch], envelope[ch]))
        mean     == PerChannel(v, LAMBDA ch : MeanOf(acc[ch]))
        \* calibrated branch
        base1    == PerChannel(v, LAMBDA ch :
                        UpdateBaseline(v, baseline[ch], envelope[ch]))
        output   == PerChannel(v, LAMBDA ch :
                        OutputOf(v, envelope[ch], base1[ch], noise_floor))
    IN  [regs      |-> PerChannel(v, LAMBDA ch : flt[ch][2]),
         raw       |-> PerChannel(v, LAMBDA ch : raw[ch]),
         filtered  |-> filtered,
         abs_emg   |-> abs_emg,
         evicted   |-> PerChannel(v, LAMBDA ch : buffer[ch][index[ch] + 1]),
         buffer    |-> PerChannel(v, LAMBDA ch :
                           PushBuffer(buffer[ch], index[ch], abs_emg[ch])),
         index     |-> PerChannel(v, LAMBDA ch : PushIndex(index[ch])),
         sum       |-> sum1,
         envelope  |-> envelope,
         counter   |-> counter1,
         done      |-> CalibrationDone(counter1),
         acc       |-> acc,
         mean      |-> mean,
         nf        |-> IF v = "one" THEN NoiseFloorOf(mean[1]) ELSE noise_floor,
         baseline  |-> base1,
         threshold |-> PerChannel(v, LAMBDA ch :
                           Threshold(v, base1[ch], noise_floor)),
         rawOut    |-> PerChannel(v, LAMBDA ch :
                           RawOutput(v, envelope[ch], base1[ch], noise_floor)),
         output    |-> output,
         peak      |-> PerChannel(v, LAMBDA ch : UpdatePeak(v, peak[ch], output[ch]))]

\* the observer record of a poll that ran a cycle
Seen(stage, c, due) ==
    [stage |-> stage, raw |-> c.raw, filtered |-> c.filtered,
     abs_emg |-> c.abs_emg, evicted |-> c.evicted, slot |-> index,
     envelope |-> c.envelope, baseBefore |-> baseline,
     threshold |-> IF stage = "pipeline" THEN c.threshold ELSE Zeros(variant),
     rawOut |-> IF stage = "pipeline" THEN c.rawOut ELSE Zeros(variant),
     output |-> IF stage = "pipeline" THEN c.output ELSE Zeros(variant),
     peakBefore |-> peak, quality |-> due]

\* the poll ran no cycle
Idle(timer1) ==
    /\ timer' = timer1
    /\ serial' = <<>>
    /\ cyc' = IdleCycle(variant)
    /\ UNCHANGED <<z, buffer, index, sum, baseline, noise_floor, peak,
                   is_calibrated, calibration_counter, last_quality_check,
                   cycles, pushed, calEnvs>>

\* mutant: what is still owed after the cycle is dropped
AcquireDropDebt(timer1, c) ==
    /\ timer' = Max(timer1 + Period, 0)
    /\ cycles' = cycles + 1
    /\ z' = c.regs
    /\ buffer' = c.buffer
    /\ index' = c.index
    /\ sum' = c.sum
    /\ pushed' = PerChannel(variant, LAMBDA ch : Append(pushed[ch], c.abs_emg[ch]))

\* mutant: `while` for `if`, the poll runs a cycle for every period owed
AcquireWhileOwed(timer1, c) ==
    LET n == ((-timer1) + Period - 1) \div Period
    IN  /\ timer' = timer1 + n * Period
        /\ cycles' = cycles + n
        /\ z' = c.regs
        /\ buffer' = c.buffer
        /\ index' = c.index
        /\ sum' = c.sum
        /\ pushed' = PerChannel(variant, LAMBDA ch : Append(pushed[ch], c.abs_emg[ch]))

\* mutant: the timer is reset to the period, the overrun is lost
AcquireTimerReset(timer1, c) ==
    /\ timer' = Period
    /\ cycles' = cycles + 1
    /\ z' = c.regs
    /\ buffer' = c.buffer
    /\ index' = c.index
    /\ sum' = c.sum
    /\ pushed' = PerChannel(variant, LAMBDA ch : Append(pushed[ch], c.abs_emg[ch]))

\* filter and envelope detector: what every cycle does first
Acquire(timer1, c) ==
    /\ timer' = timer1 + Period
    /\ cycles' = cycles + 1
    /\ z' = c.regs
    /\ buffer' = c.buffer
    /\ index' = c.index
    /\ sum' = c.sum
    /\ pushed' = PerChannel(variant, LAMBDA ch : Append(pushed[ch], c.abs_emg[ch]))

\* mutant: the last channel's baseline is computed from the first channel's
\* accumulator
UpdateCalibrationCrossed(c) ==
    /\ calibration_counter' = c.counter
    /\ calEnvs' = PerChannel(variant, LAMBDA ch : Append(calEnvs[ch], c.envelope[ch]))
    /\ baseline' = IF c.done
                   THEN [c.mean EXCEPT ![NumChannels(variant)] = c.mean[1]]
                   ELSE c.acc
    /\ noise_floor' = IF c.done THEN c.nf ELSE noise_floor
    /\ is_calibrated' = c.done
    /\ serial' =
         (IF ProgressDue(variant, c.counter)
          THEN <<ProgressLine(c.counter)>> ELSE <<>>) \o
         (IF c.done THEN CompleteLines(variant, c.mean, c.nf) ELSE <<>>)
    /\ cyc' = Seen("calibration", c, FALSE)
    /\ UNCHANGED <<peak, last_quality_check>>

\* mutant: the division by CALIBRATION_SAMPLES is missing, the accumulated
\* sum is left in the baseline at the transition
UpdateCalibrationNoDivide(c) ==
    /\ calibration_counter' = c.counter
    /\ calEnvs' = PerChannel(variant, LAMBDA ch : Append(calEnvs[ch], c.envelope[ch]))
    /\ baseline' = c.acc
    /\ noise_floor' = IF c.done THEN c.nf ELSE noise_floor
    /\ is_calibrated' = c.done
    /\ serial' =
         (IF ProgressDue(variant, c.counter)
          THEN <<ProgressLine(c.counter)>> ELSE <<>>) \o
         (IF c.done THEN CompleteLines(variant, c.mean, c.nf) ELSE <<>>)
    /\ cyc' = Seen("calibration", c, FALSE)
    /\ UNCHANGED <<peak, last_quality_check>>

\* mutant: calibration cycles are not silent, a data line with zero
\* outputs is written
UpdateCalibrationZeroLine(c) ==
    /\ calibration_counter' = c.counter
    /\ calEnvs' = PerChannel(variant, LAMBDA ch : Append(calEnvs[ch], c.envelope[ch]))
    /\ baseline' = IF c.done THEN c.mean ELSE c.acc
    /\ noise_floor' = IF c.done THEN c.nf ELSE noise_floor
    /\ is_calibrated' = c.done
    /\ serial' =
         (IF ProgressDue(variant, c.counter)
          THEN <<ProgressLine(c.counter)>> ELSE <<>>) \o
         (IF c.done THEN CompleteLines(variant, c.mean, c.nf) ELSE <<>>) \o
         <<EmgLine(variant, clock' \div 1000, Zeros(variant),
                   IF c.done THEN c.mean ELSE c.acc)>>
    /\ cyc' = Seen("calibration", c, FALSE)
    /\ UNCHANGED <<peak, last_quality_check>>

\* updateCalibration(...); return;
UpdateCalibration(c) ==
    /\ calibration_counter' = c.counter
    /\ calEnvs' = PerChannel(variant, LAMBDA ch : Append(calEnvs[ch], c.envelope[ch]))
    /\ baseline' = IF c.done THEN c.mean ELSE c.acc
    /\ noise_floor' = IF c.done THEN c.nf ELSE noise_floor
    /\ is_calibrated' = c.done
    /\ serial' =
         (IF ProgressDue(variant, c.counter)
          THEN <<ProgressLine(c.counter)>> ELSE <<>>) \o
         (IF c.done THEN CompleteLines(variant, c.mean, c.nf) ELSE <<>>)
    /\ cyc' = Seen("calibration", c, FALSE)
    /\ UNCHANGED <<peak, last_quality_check>>

\* mutant: the quality check runs before updatePeakTracking and reports the
\* peaks of the cycle before
PipelineQualityBeforePeak(c, ms) ==
    LET due == QualityDue(ms, last_quality_check)
    IN  /\ baseline' = c.baseline
        /\ peak' = c.peak
        /\ last_quality_check' = IF due THEN ms ELSE last_quality_check
        /\ serial' =
             (IF due THEN <<QualityLine(variant, peak, c.baseline)>> ELSE <<>>) \o
             SendData(variant, ms, c.output, c.baseline)
        /\ cyc' = Seen("pipeline", c, due)
        /\ UNCHANGED <<noise_floor, is_calibrated, calibration_counter, calEnvs>>

\* mutant: last_quality_check is not updated after a report
PipelineQualityKeepsClock(c, ms) ==
    LET due == QualityDue(ms, last_quality_check)
    IN  /\ baseline' = c.baseline
        /\ peak' = c.peak
        /\ last_quality_check' = last_quality_check
        /\ serial' =
             (IF due THEN <<QualityLine(variant, c.peak, c.baseline)>> ELSE <<>>) \o
             SendData(variant, ms, c.output, c.baseline)
        /\ cyc' = Seen("pipeline", c, due)
        /\ UNCHANGED <<noise_floor, is_calibrated, calibration_counter, calEnvs>>

\* mutant: the data line carries the baselines from before updateBaselines
PipelineStaleBaseline(c, ms) ==
    LET due == QualityDue(ms, last_quality_check)
    IN  /\ baseline' = c.baseline
        /\ peak' = c.peak
        /\ last_quality_check' = IF due THEN ms ELSE last_quality_check
        /\ serial' =
             (IF due THEN <<QualityLine(variant, c.peak, c.baseline)>> ELSE <<>>) \o
             SendData(variant, ms, c.output, baseline)
        /\ cyc' = Seen("pipeline", c, due)
        /\ UNCHANGED <<noise_floor, is_calibrated, calibration_counter, calEnvs>>

\* mutant: the quality check clears the peaks it has just reported
PipelineQualityResetsPeak(c, ms) ==
    LET due == QualityDue(ms, last_quality_check)
    IN  /\ baseline' = c.baseline
        /\ peak' = IF due THEN Zeros(variant) ELSE c.peak
        /\ last_quality_check' = IF due THEN ms ELSE last_quality_check
        /\ serial' =
             (IF due THEN <<QualityLine(variant, c.peak, c.baseline)>> ELSE <<>>) \o
             SendData(variant, ms, c.output, c.baseline)
        /\ cyc' = Seen("pipeline", c, due)
        /\ UNCHANGED <<noise_floor, is_calibrated, calibration_counter, calEnvs>>

\* updateBaselines ... sendResearchData
Pipeline(c, ms) ==
    LET due == QualityDue(ms, last_quality_check)
    IN  /\ baseline' = c.baseline
        /\ peak' = c.peak
        /\ last_quality_check' = IF due THEN ms ELSE last_quality_check
        /\ serial' =
             (IF due THEN <<QualityLine(variant, c.peak, c.baseline)>> ELSE <<>>) \o
             SendData(variant, ms, c.output, c.baseline)
        /\ cyc' = Seen("pipeline", c, due)
        /\ UNCHANGED <<noise_floor, is_calibrated, calibration_counter, calEnvs>>

Loop(dt, raw) ==
    LET present  == clock + dt
        interval == present - past
        timer1   == timer - interval
    IN  /\ TimerExpired(timer1) => cycles < MaxCycles
        /\ clock' = present
        /\ past' = present
        /\ UNCHANGED variant
        /\ IF ~TimerExpired(timer1)
           THEN Idle(timer1)
           ELSE \E c \in {Sample(raw)} :
                  /\ Acquire(timer1, c)
                  /\ IF InCalibration(is_calibrated)
                     THEN UpdateCalibration(c)
                     ELSE Pipeline(c, present \div 1000)

Next == \E dt \in Intervals : \E raw \in RawInputs(variant) : Loop(dt, raw)

Spec == Init /\ [][Next]_vars

(***************************************************************************)
(* The scheduler under irregular polling: polls a quarter of a period, a   *)
(* period or two periods apart, the channels reading one of the two rails  *)
(* together, for MaxSpan microseconds after setup().                       *)
(***************************************************************************)
MaxSpan == 7000

IntervalsSched == {Period \div 4, Period, 2 * Period}

RawInputsSched(v) == {r \in RawInputs(v) : \A ch \in Channels(v) : r[ch] = r[1]}

NextSched ==
    \E dt \in IntervalsSched : \E raw \in RawInputsSched(variant) :
       /\ clock + dt <= SetupDelayMs(variant) * 1000 + MaxSpan
       /\ Loop(dt, raw)

SpecSched == Init /\ [][NextSched]_vars


(***************************************************************************)
(* Properties.                                                             *)
(***************************************************************************)
IsData(line) == line.tag \in {"EMG", "QUALITY"}

Min(a, b) == IF a < b THEN a ELSE b

\* the last n elements of s (all of s when it is shorter)
LastN(s, n) == IF Len(s) <= n THEN s ELSE SubSeq(s, Len(s) - n + 1, Len(s))

\* the value the latest push into slot i (0-based) left there; 0 when the
\* slot was never written.  Push number k (from 0) goes to slot k % BUFFER_SIZE.
SlotValue(ps, i) ==
    LET ks == {k \in 0..(Len(ps) - 1) : k % BUFFER_SIZE = i}
    IN  IF ks = {} THEN 0
        ELSE ps[(CHOOSE k \in ks : \A j \in ks : j <= k) + 1]

\* C1: a sample cycle that starts with is_calibrated = false writes no EMG
\* and no QUALITY line, in any sketch.
C1_NoDataWhileCalibrating ==
    [][~is_calibrated =>
         \A i \in 1..Len(serial') : ~IsData(serial'[i])]_vars

\* the calibration transition cycle: it started uncalibrated and wrote lines
C1_Witness ==
    /\ cyc.stage = "calibration"
    /\ is_calibrated
    /\ Len(serial) > 0

\* C2: is_calibrated is true exactly from the CALIBRATION_SAMPLES-th sample
\* cycle on, and right after that cycle each baseline is the mean (to the
\* nearest representable value) of the CALIBRATION_SAMPLES envelopes the
\* channel produced.
C2_CalibrationMean ==
    /\ is_calibrated <=> cycles >= CALIBRATION_SAMPLES
    /\ cycles = CALIBRATION_SAMPLES =>
         \A ch \in Channels(variant) :
            /\ Len(calEnvs[ch]) = CALIBRATION_SAMPLES
            /\ 2 * Abs(CALIBRATION_SAMPLES * baseline[ch] - SumSeq(calEnvs[ch]))
                 <= CALIBRATION_SAMPLES

\* the transition has just happened, on unequal non-zero envelopes
C2_Witness ==
    /\ cycles = CALIBRATION_SAMPLES
    /\ is_calibrated
    /\ \E ch \in Channels(variant) :
         /\ baseline[ch] > 0
         /\ calEnvs[ch][1] # calEnvs[ch][CALIBRATION_SAMPLES]

\* C3: once is_calibrated is true it stays true, updateCalibration does not
\* run again (the counter stays at CALIBRATION_SAMPLES, no envelope is
\* accumulated: each baseline moves only between its old value and the
\* envelope), and it is true from the CALIBRATION_SAMPLES-th cycle on.
C3_CalibratedOnce ==
    /\ [](cycles >= CALIBRATION_SAMPLES => is_calibrated)
    /\ [][is_calibrated =>
            /\ is_calibrated'
            /\ calibration_counter = CALIBRATION_SAMPLES
            /\ calibration_counter' = calibration_counter
            /\ calEnvs' = calEnvs
            /\ cyc'.stage # "calibration"
            /\ \A ch \in Channels(variant) :
                 /\ baseline'[ch] >= Min(baseline[ch], cyc'.envelope[ch])
                 /\ baseline'[ch] <= Max(baseline[ch], cyc'.envelope[ch])]_vars

\* two cycles after the transition, with a baseline that accumulation would
\* have pushed past the envelope
C3_Witness ==
    /\ is_calibrated
    /\ cycles >= CALIBRATION_SAMPLES + 2
    /\ calibration_counter = CALIBRATION_SAMPLES
    /\ \E ch \in Channels(variant) :
         cyc.baseBefore[ch] > 0 /\ cyc.envelope[ch] > 0

\* C4: after any number of pushes the running sum is the exact sum of the
\* buffer, and the buffer holds the last BUFFER_SIZE pushed values, each in
\* its slot (0 in a slot not yet written).
C4_RunningSum ==
    \A ch \in Channels(variant) :
       /\ sum[ch] = SumSeq(buffer[ch])
       /\ sum[ch] = SumSeq(LastN(pushed[ch], BUFFER_SIZE))
       /\ \A i \in 0..(BUFFER_SIZE - 1) :
            buffer[ch][i + 1] = SlotValue(pushed[ch], i)

\* a push has evicted a non-zero value and stored a different one
C4_Witness ==
    \E ch \in Channels(variant) :
       /\ Len(pushed[ch]) > BUFFER_SIZE
       /\ cyc.evicted[ch] > 0
       /\ cyc.abs_emg[ch] # cyc.evicted[ch]
       /\ sum[ch] > 0

\* C5: the envelope detector never returns a negative value: the buffer
\* holds only rectified, truncated values and the sum is never negative.
C5_EnvelopeNonNegative ==
    \A ch \in Channels(variant) :
       /\ \A i \in 1..BUFFER_SIZE : buffer[ch][i] >= 0
       /\ sum[ch] >= 0
       /\ EnvelopeOf(variant, sum[ch]) >= 0
       /\ cyc.envelope[ch] >= 0
       /\ cyc.abs_emg[ch] * SCALE <= Abs(cyc.filtered[ch])
       /\ Abs(cyc.filtered[ch]) < (cyc.abs_emg[ch] + 1) * SCALE

\* a negative filtered sample was pushed and the envelope is positive
C5_Witness ==
    \E ch \in Channels(variant) :
       /\ cyc.filtered[ch] <= -SCALE
       /\ cyc.envelope[ch] > 0

\* the envelopes at which C7 and C9 evaluate a channel's thresholding
ProbeEnvelopes(v, b, nf, e) ==
    LET t == Threshold(v, b, nf)
    IN  {x \in {0, b, t - 1, t, t + 1, t + 2, e, e + 1, e + SCALE} : x >= 0}

\* C6: on a calibrated cycle the baseline is first smoothed with the cycle's
\* envelope, and the thresholded output is (envelope - baseline) when the
\* envelope exceeds max(baseline + baseline * MULTIPLIER, noise_floor) and 0
\* otherwise, with that smoothed baseline and a noise floor of 0 in the
\* sketches that have none.
C6_ThresholdedOutput ==
    cyc.stage = "pipeline" =>
      \A ch \in Channels(variant) :
         LET a  == BASELINE_ALPHA(variant)
             m  == DYNAMIC_THRESHOLD_MULTIPLIER(variant)
             e  == cyc.envelope[ch]
             b  == baseline[ch]
             t  == cyc.threshold[ch]
         IN  /\ 2 * Abs(a[2] * b - (a[1] * cyc.baseBefore[ch] + (a[2] - a[1]) * e))
                  <= a[2]
             /\ variant # "one" => noise_floor = 0
             /\ t >= noise_floor
             /\ \/ t = noise_floor
                \/ 2 * Abs(m[2] * t - (m[2] + m[1]) * b) <= m[2]
             /\ 2 * (m[2] * t - (m[2] + m[1]) * b) >= -m[2]
             /\ cyc.rawOut[ch] = IF e > t THEN e - b ELSE 0

\* a cycle above the threshold whose baseline the smoothing has moved
C6_Witness ==
    /\ cyc.stage = "pipeline"
    /\ \E ch \in Channels(variant) :
         /\ cyc.baseBefore[ch] > 0
         /\ baseline[ch] # cyc.baseBefore[ch]
         /\ cyc.rawOut[ch] > 0
         /\ cyc.rawOut[ch] = cyc.envelope[ch] - baseline[ch]

\* C7: a calibrated cycle whose envelope equals the baseline leaves the
\* baseline where it was and has output 0, for a zero baseline too; so a
\* constant envelope equal to the calibrated baseline keeps both for ever.
C7_QuiescentAtBaseline ==
    /\ cyc.stage = "pipeline" =>
         \A ch \in Channels(variant) :
            cyc.envelope[ch] = cyc.baseBefore[ch] =>
               /\ baseline[ch] = cyc.baseBefore[ch]
               /\ cyc.rawOut[ch] = 0
               /\ cyc.output[ch] = 0
    /\ is_calibrated =>
         \A ch \in Channels(variant) :
            /\ UpdateBaseline(variant, baseline[ch], baseline[ch]) = baseline[ch]
            /\ OutputOf(variant, baseline[ch], baseline[ch], noise_floor) = 0

\* the second cycle after calibration, the envelope still on the non-zero
\* baseline that calibration established
C7_Witness ==
    /\ cyc.stage = "pipeline"
    /\ cycles >= CALIBRATION_SAMPLES + 2
    /\ \E ch \in Channels(variant) :
         /\ cyc.baseBefore[ch] > 0
         /\ cyc.envelope[ch] = cyc.baseBefore[ch]
         /\ baseline[ch] = MeanOf(SumSeq(calEnvs[ch]))

\* C8: no baseline is ever negative, and on every calibrated cycle the
\* output of every channel is >= 0, before and after compression and gain,
\* and so is every value of the EMG line.
C8_OutputNonNegative ==
    /\ \A ch \in Channels(variant) :
         /\ baseline[ch] >= 0
         /\ cyc.rawOut[ch] >= 0
         /\ cyc.output[ch] >= 0
    /\ noise_floor >= 0
    /\ \A i \in 1..Len(serial) :
         serial[i].tag = "EMG" =>
            \A k \in 1..Len(serial[i].vals) : serial[i].vals[k] >= 0

\* a calibrated cycle below a positive baseline, where the difference
\* envelope - baseline is negative
C8_Witness ==
    /\ cyc.stage = "pipeline"
    /\ \E ch \in Channels(variant) :
         /\ cyc.envelope[ch] < baseline[ch]
         /\ cyc.output[ch] = 0
    /\ \E i \in 1..Len(serial) : serial[i].tag = "EMG"

\* C9: with the baseline held fixed, the output (compression and gains
\* included) does not decrease when the envelope grows, and it is positive
\* for every envelope above the threshold when the baseline is positive.
C9_MonotoneOutput ==
    is_calibrated =>
      \A ch \in Channels(variant) :
         LET b   == baseline[ch]
             t   == Threshold(variant, b, noise_floor)
             pts == {<<e, OutputOf(variant, e, b, noise_floor)>> :
                       e \in ProbeEnvelopes(variant, b, noise_floor,
                                            cyc.envelope[ch])}
         IN  /\ \A p \in pts : \A q \in pts : p[1] <= q[1] => p[2] <= q[2]
             /\ \A p \in pts : (b > 0 /\ p[1] > t) => p[2] > 0
             /\ \A p \in pts : p[1] <= t => p[2] = 0

\* a compressed positive output over a positive baseline
C9_Witness ==
    /\ variant # "four"
    /\ cyc.stage = "pipeline"
    /\ \E ch \in Channels(variant) :
         /\ baseline[ch] > 0
         /\ cyc.envelope[ch] > cyc.threshold[ch]
         /\ cyc.output[ch] > 0
         /\ cyc.output[ch] # cyc.rawOut[ch]

\* C10: on a calibrated cycle each peak becomes max(decay * previous peak,
\* output): it is at least both, it is one of the two, it exceeds the
\* previous peak only when the output does, and otherwise does not grow.
C10_PeakRatchet ==
    cyc.stage = "pipeline" =>
      \A ch \in Channels(variant) :
         LET d   == PeakDecay(variant)
             old == cyc.peakBefore[ch]
             out == cyc.output[ch]
         IN  /\ peak[ch] >= out
             /\ 2 * (d[2] * peak[ch] - d[1] * old) >= -d[2]
             /\ \/ peak[ch] = out
                \/ 2 * Abs(d[2] * peak[ch] - d[1] * old) <= d[2]
             /\ peak[ch] > old => out > old /\ peak[ch] = out
             /\ out <= old => peak[ch] <= old

\* a decaying peak: the output is positive, below the previous peak times
\* the decay, and the peak has come down
C10_Witness ==
    /\ cyc.stage = "pipeline"
    /\ \E ch \in Channels(variant) :
         /\ cyc.output[ch] > 0
         /\ cyc.output[ch] < peak[ch]
         /\ peak[ch] < cyc.peakBefore[ch]

\* C11: calculateSNR returns the sentinel 999 when the baseline is exactly
\* 0, whatever the peak, and peak / baseline otherwise; a QUALITY line
\* prints 999.00 for a channel whose baseline is 0.
C11_SNRSentinel ==
    /\ \A ch \in Channels(variant) :
         /\ \A pk \in {0, 1, SCALE, peak[ch], cyc.output[ch]} :
               CalculateSNR(pk, 0) = SNR_SENTINEL * SCALE
         /\ baseline[ch] # 0 =>
               2 * Abs(baseline[ch] * CalculateSNR(peak[ch], baseline[ch])
                       - peak[ch] * SCALE) <= Abs(baseline[ch])
    /\ cyc.quality =>
         /\ serial[1].tag = "QUALITY"
         /\ \A ch \in Channels(variant) :
              /\ baseline[ch] = 0 =>
                    serial[1].vals[ch] = SNR_SENTINEL * Pow10(2)
              /\ baseline[ch] # 0 =>
                    serial[1].vals[ch] =
                       PrintFloat(CalculateSNR(peak[ch], baseline[ch]), 2)

\* a quality report with the sentinel on one channel and a true ratio on
\* another
C11_Witness ==
    /\ cyc.quality
    /\ \E i \in Channels(variant) : \E j \in Channels(variant) :
         /\ baseline[i] = 0
         /\ serial[1].vals[i] = SNR_SENTINEL * Pow10(2)
         /\ baseline[j] > 0
         /\ peak[j] > 0
         /\ serial[1].vals[j] # SNR_SENTINEL * Pow10(2)

\* C12: what a calibrated cycle leaves in the filter registers, buffers,
\* indices, sums, baselines, peaks and calibration state, and the outputs
\* and baselines of its EMG line, are what the cycle computes from the
\* readings and the state before it, the same whether or not the quality
\* check fired; the check only moves last_quality_check and adds its line.
C12_QualityFrame ==
    [][cyc'.stage = "pipeline" =>
         \E c \in {Sample(cyc'.raw)} :
            /\ z' = c.regs
            /\ buffer' = c.buffer
            /\ index' = c.index
            /\ sum' = c.sum
            /\ baseline' = c.baseline
            /\ peak' = c.peak
            /\ noise_floor' = noise_floor
            /\ is_calibrated' = is_calibrated
            /\ calibration_counter' = calibration_counter
            /\ LET data == SelectSeq(serial', LAMBDA l : l.tag # "QUALITY")
                    qual == SelectSeq(serial', LAMBDA l : l.tag = "QUALITY")
               IN  /\ data = SendData(variant, clock' \div 1000, c.output, c.baseline)
                   /\ Len(qual) = IF cyc'.quality THEN 1 ELSE 0
            /\ last_quality_check' # last_quality_check => cyc'.quality]_vars

\* the quality check fired on a cycle with non-zero peaks and outputs
C12_Witness ==
    /\ cyc.stage = "pipeline"
    /\ cyc.quality
    /\ serial[1].tag = "QUALITY"
    /\ \E ch \in Channels(variant) :
         /\ cyc.output[ch] > 0
         /\ peak[ch] > 0
         /\ baseline[ch] > 0

\* a poll wrote a QUALITY line
Reported(lines) == \E i \in 1..Len(lines) : lines[i].tag = "QUALITY"

\* C13 as stated, for the polls after calibration: every poll at which
\* more than QUALITY_CHECK_INTERVAL ms have elapsed since the last check
\* computes a report, whether or not it runs a sample cycle.
C13_Original ==
    [][(/\ is_calibrated
        /\ clock' \div 1000 - last_quality_check > QUALITY_CHECK_INTERVAL)
         => Reported(serial')]_vars

\* C13 (amended): a report is computed on exactly the polls that run a
\* sample cycle, start calibrated and find more than QUALITY_CHECK_INTERVAL
\* ms elapsed since the last check, and last_quality_check then takes the
\* poll's time; a poll without a sample cycle and a calibration cycle never
\* report and leave last_quality_check alone.
C13_QualityInsideCycles ==
    [][/\ Reported(serial') <=>
            /\ cyc'.stage # "idle"
            /\ is_calibrated
            /\ clock' \div 1000 - last_quality_check > QUALITY_CHECK_INTERVAL
        /\ last_quality_check' =
              IF Reported(serial') THEN clock' \div 1000 ELSE last_quality_check
        /\ cyc'.quality = Reported(serial')]_vars

\* a calibrated poll that ran no cycle and wrote nothing, more than the
\* interval after the last report
C13_Witness ==
    /\ cyc.stage = "idle"
    /\ is_calibrated
    /\ last_quality_check > 0
    /\ clock \div 1000 - last_quality_check > QUALITY_CHECK_INTERVAL
    /\ serial = <<>>

\* C14: a cycle adds the nominal period to the timer, so after every poll
\* timer = cycles * Period - (the microseconds the polls have measured,
\* which `past` holds); the timer never reaches a full period, and while a
\* poll comes no later than a period after the previous one the cycle
\* count falls no further behind the elapsed time.
C14_TimerAccounting ==
    /\ [](/\ timer = cycles * Period - past
          /\ past = clock \/ cycles = 0
          /\ timer < Period)
    /\ [][/\ cyc'.stage # "idle" => timer' = timer - (clock' - past) + Period
          /\ clock' - past <= Period => timer' >= Min(timer, 0)]_vars

\* a cycle that carried an overrun forward: the timer is positive but not
\* the full period
C14_Witness ==
    /\ cyc.stage # "idle"
    /\ cycles > CALIBRATION_SAMPLES
    /\ timer > 0
    /\ timer < Period
    /\ timer = cycles * Period - clock

\* the EMG lines among `lines`
EmgLines(lines) == SelectSeq(lines, LAMBDA l : l.tag = "EMG")

\* C15: a poll runs at most one cycle, however long the measured interval:
\* the cycle count grows by one on a poll that runs a cycle and not at all
\* otherwise, every buffer takes one value per cycle, at most one EMG line
\* is written, and the timer gains one period only.
C15_OneCyclePerPoll ==
    [][/\ cycles' = IF cyc'.stage = "idle" THEN cycles ELSE cycles + 1
       /\ \A ch \in Channels(variant) : Len(pushed'[ch]) = cycles'
       /\ Len(EmgLines(serial')) <= 1
       /\ timer' <= timer - (clock' - past) + Period]_vars

\* a cycle that left the count more than a period further behind than
\* setup() had: some poll spanned two periods and ran one cycle
C15_Witness ==
    /\ cyc.stage # "idle"
    /\ cycles >= 2
    /\ timer <= -(SetupDelayMs(variant) * 1000) - Period

\* C16 as stated: missed cycles are not made up.  After a cycle that left
\* the count a whole period or more behind the elapsed time, a poll that
\* comes less than a period later runs no cycle.
C16_Original ==
    [][(/\ cyc.stage # "idle"
        /\ timer <= -Period
        /\ clock' - clock < Period)
         => cyc'.stage = "idle"]_vars

\* C16 (amended): the periods a long poll spans stay owed in the timer.
\* While the timer is not positive every poll runs a cycle, however soon it
\* comes; a cycle on a poll a period or more after the previous one leaves
\* the count as far behind as it was, further behind when the poll took
\* longer than a period, and a cycle on a poll that comes sooner makes up
\* the difference.
C16_DebtCarried ==
    [][/\ timer <= 0 => cyc'.stage # "idle"
       /\ cyc'.stage # "idle" =>
            /\ clock' - past >= Period => timer' <= timer
            /\ clock' - past > Period => timer' < timer
            /\ clock' - past < Period =>
                  timer' = timer + (Period - (clock' - past))]_vars

\* cycles being made up: more cycles than periods since the first poll,
\* and the count still behind
C16_Witness ==
    /\ cyc.stage # "idle"
    /\ timer < 0
    /\ cycles * Period > (clock - SetupDelayMs(variant) * 1000) + Period

\* C17 as stated: a cycle runs on every poll at which the timer, after the
\* measured interval is subtracted, is <= 0, the value 0 included.
C17_Original ==
    [][timer - (clock' - past) <= 0 => cyc'.stage # "idle"]_vars

\* C17 (amended): a cycle runs on exactly the polls at which the timer,
\* after the measured interval is subtracted, is negative; at exactly 0 the
\* poll runs no cycle and leaves the timer at 0.
C17_StrictlyNegative ==
    [][/\ cyc'.stage # "idle" <=> timer - (clock' - past) < 0
       /\ timer - (clock' - past) = 0 =>
            /\ timer' = 0
            /\ cycles' = cycles
            /\ serial' = <<>>]_vars

\* a poll found the timer at exactly 0 and ran no cycle
C17_Witness ==
    /\ cyc.stage = "idle"
    /\ cycles > 0
    /\ timer = 0
    /\ serial = <<>>

\* x printed with d decimals: the nearest multiple of 10^-d
Printed(p, x, d) == 2 * Abs(p * SCALE - x * Pow10(d)) <= SCALE

\* C18: a calibrated sample cycle writes exactly one EMG line; it carries
\* the poll's time, per channel the output of that cycle after the
\* post-gain, then per channel the baseline as that cycle updated it.
\* A calibration cycle and a poll without a cycle write none.
C18_OneDataLinePerCycle ==
    LET lines == EmgLines(serial)
        d     == EmgDigits(variant)
    IN  /\ Len(lines) = IF cyc.stage = "pipeline" THEN 1 ELSE 0
        /\ cyc.stage = "pipeline" =>
             /\ lines[1].ts = clock \div 1000
             /\ Len(lines[1].vals) = NumChannels(variant)
             /\ Len(lines[1].bases) = NumChannels(variant)
             /\ \A ch \in Channels(variant) :
                  /\ Printed(lines[1].vals[ch], cyc.output[ch], d)
                  /\ Printed(lines[1].bases[ch], baseline[ch], d)
                  /\ cyc.output[ch] =
                       PostGain(variant) *
                         ApplyAdaptiveThreshold(variant, cyc.envelope[ch],
                                                baseline[ch], noise_floor)

\* a data line of the 2-channel sketch with a doubled output and a
\* baseline the cycle has moved
C18_Witness ==
    /\ variant = "two"
    /\ cyc.stage = "pipeline"
    /\ Len(EmgLines(serial)) = 1
    /\ \E ch \in Channels(variant) :
         /\ cyc.output[ch] > 0
         /\ baseline[ch] # cyc.baseBefore[ch]
         /\ EmgLines(serial)[1].vals[ch] > 0

\* what may stand between the first token of a data record and its newline
RecordTokens == {"#", ",", ",GOOD", ",LOW_QUALITY", ""}

\* the index of the println that ends the line token i is on
LineEnd(s, i) == CHOOSE j \in i..Len(s) : s[j].nl /\ \A k \in i..(j - 1) : ~s[k].nl

\* C19: in what a poll writes, an EMG or QUALITY record starts at the
\* start of a line, everything up to its newline is a number, a comma or
\* the classification, and the poll ends on a newline: no other text falls
\* inside a record.
C19_RecordsNotInterleaved ==
    LET s == Stream(variant, serial)
    IN  /\ Len(s) > 0 => s[Len(s)].nl
        /\ \A i \in 1..Len(s) :
             s[i].text \in {"EMG,", "QUALITY,"} =>
                /\ i = 1 \/ s[i - 1].nl
                /\ \E j \in i..Len(s) : s[j].nl
                /\ \A k \in (i + 1)..LineEnd(s, i) : s[k].text \in RecordTokens

\* a poll that wrote a quality record, a data record and the debug line
C19_Witness ==
    /\ Len(serial) = 3
    /\ serial[1].tag = "QUALITY"
    /\ serial[2].tag = "EMG"
    /\ serial[3].tag \in {"MOVEMENT_DETECTED", "MOVEMENT_UP"}
    /\ Len(Stream(variant, serial)) > 3

\* One cycle of channel ch alone: from the channel's reading and the
\* channel's own registers, buffer, index, sum, baseline and peak, with the
\* calibration flag and counter, what the cycle leaves in them and the
\* output it emits.
ChannelStep(v, ch, raw, zz, buf, idx, s, b, pk, calibrated, counter, nf) ==
    LET flt == EMGFilter(FilterCoefs(v, ch), raw * SCALE, zz)
        a   == AbsEmg(flt[1])
        s1  == PushSum(buf, idx, s, a)
        env == Amplify(v, EnvelopeOf(v, s1))
        b1  == IF calibrated THEN UpdateBaseline(v, b, env)
               ELSE IF CalibrationDone(counter + 1) THEN MeanOf(Accumulate(b, env))
               ELSE Accumulate(b, env)
        out == IF calibrated THEN OutputOf(v, env, b1, nf) ELSE 0
    IN  [z |-> flt[2], buffer |-> PushBuffer(buf, idx, a), index |-> PushIndex(idx),
         sum |-> s1, baseline |-> b1, output |-> out,
         peak |-> IF calibrated THEN UpdatePeak(v, pk, out) ELSE pk]

\* C20: channels do not interfere.  The calibration counter and flag are
\* functions of the cycle count, and on every cycle each channel's filter
\* registers, buffer, index, sum, baseline, peak and emitted output are
\* what that channel's own reading and own previous state give: no other
\* channel's reading or state enters.
C20_ChannelsIndependent ==
    /\ [](/\ calibration_counter = Min(cycles, CALIBRATION_SAMPLES)
          /\ is_calibrated <=> cycles >= CALIBRATION_SAMPLES)
    /\ [][cyc'.stage # "idle" =>
            \A ch \in Channels(variant) :
               \E n \in {ChannelStep(variant, ch, cyc'.raw[ch], z[ch], buffer[ch],
                                      index[ch], sum[ch], baseline[ch], peak[ch],
                                      is_calibrated, calibration_counter,
                                      noise_floor)} :
                  /\ z'[ch] = n.z
                  /\ buffer'[ch] = n.buffer
                  /\ index'[ch] = n.index
                  /\ sum'[ch] = n.sum
                  /\ baseline'[ch] = n.baseline
                  /\ peak'[ch] = n.peak
                  /\ cyc'.output[ch] = n.output
                  /\ is_calibrated =>
                       Printed(EmgLines(serial')[1].vals[ch], n.output,
                               EmgDigits(variant))]_vars

\* two channels with different readings and different histories, one of
\* them active
C20_Witness ==
    /\ cyc.stage = "pipeline"
    /\ \E i \in Channels(variant) : \E j \in Channels(variant) :
         /\ cyc.raw[i] # cyc.raw[j]
         /\ pushed[i] # pushed[j]
         /\ baseline[i] # baseline[j]
         /\ cyc.output[i] > 0
         /\ cyc.output[j] = 0

\* C21: the baseline changes role at the calibration transition, in one
\* cycle.  A cycle that starts uncalibrated adds the envelope to the
\* baseline, divides by CALIBRATION_SAMPLES on the last one, never smooths,
\* computes no threshold and writes no data or quality line; a cycle that
\* starts calibrated only smooths.  While uncalibrated the baseline is the
\* sum of the envelopes so far; the first calibrated cycle starts from their
\* mean, and every threshold and every baseline printed in an EMG line, and
\* every SNR of a QUALITY line, comes from a smoothed baseline.
C21_BaselineRoleSwitch ==
    /\ [](/\ ~is_calibrated =>
               \A ch \in Channels(variant) : baseline[ch] = SumSeq(calEnvs[ch])
          /\ cycles = CALIBRATION_SAMPLES =>
               \A ch \in Channels(variant) :
                  baseline[ch] = MeanOf(SumSeq(calEnvs[ch])))
    /\ [][cyc'.stage # "idle" =>
            \A ch \in Channels(variant) :
               LET e      == cyc'.envelope[ch]
                   acc    == Accumulate(baseline[ch], e)
                   smooth == UpdateBaseline(variant, baseline[ch], e)
               IN  /\ ~is_calibrated =>
                        /\ baseline'[ch] =
                              IF calibration_counter + 1 >= CALIBRATION_SAMPLES
                              THEN MeanOf(acc) ELSE acc
                        /\ cyc'.stage = "calibration"
                        /\ cyc'.threshold[ch] = 0
                        /\ \A i \in 1..Len(serial') : ~IsData(serial'[i])
                   /\ is_calibrated =>
                        /\ baseline'[ch] = smooth
                        /\ cyc'.stage = "pipeline"
                        /\ cyc'.threshold[ch] =
                              Threshold(variant, smooth, noise_floor)
                        /\ EmgLines(serial')[1].bases[ch] =
                              PrintFloat(smooth, EmgDigits(variant))
                        /\ cyc'.quality =>
                              serial'[1].vals[ch] =
                                 PrintFloat(CalculateSNR(peak'[ch], smooth), 2)]_vars

\* the first calibrated cycle: it starts from the mean of the calibration
\* envelopes, not their sum, and smoothing and accumulation would differ
C21_Witness ==
    /\ cyc.stage = "pipeline"
    /\ cycles = CALIBRATION_SAMPLES + 1
    /\ Len(EmgLines(serial)) = 1
    /\ \E ch \in Channels(variant) :
         /\ cyc.baseBefore[ch] = MeanOf(SumSeq(calEnvs[ch]))
         /\ cyc.baseBefore[ch] # SumSeq(calEnvs[ch])
         /\ cyc.envelope[ch] > 0
         /\ baseline[ch] < cyc.baseBefore[ch] + cyc.envelope[ch]
         /\ cyc.threshold[ch] > 0

\* the first n outputs of a filter driven with the constant `input` from
\* cleared registers, and the registers it is left with
RECURSIVE StepResponse(_, _, _)
StepResponse(cs, input, n) ==
    IF n = 0 THEN << <<>>, ZeroRegs >>
    ELSE LET p == StepResponse(cs, input, n - 1)
             f == EMGFilter(cs, input, p[2])
         IN  <<Append(p[1], f[1]), f[2]>>

\* channel ch was driven with the constant reading V on every cycle so far
ConstantDrive(v, ch, V) ==
    LET outs == StepResponse(FilterCoefs(v, ch), V * SCALE, cycles)[1]
    IN  /\ cyc.raw[ch] = V
        /\ pushed[ch] = [k \in 1..cycles |-> AbsEmg(outs[k])]

\* the sum, over the calibration cycles, of the moving-window sums of the
\* magnitude of the filter's response to a full-scale constant reading
StepWeight(v, ch) ==
    LET outs == StepResponse(FilterCoefs(v, ch), ADC_MAX * SCALE,
                             CALIBRATION_SAMPLES)[1]
        mags == [k \in 1..CALIBRATION_SAMPLES |-> Abs(outs[k])]
    IN  SumSeq([n \in 1..CALIBRATION_SAMPLES |->
                  SumSeq(LastN(SubSeq(mags, 1, n), BUFFER_SIZE))])

\* V times the channel's fixed factor: the envelope gain and the
\* amplification times the mean moving average of the magnitude of the
\* filter's response to a unit constant reading
StepBaseline(v, ch, V) ==
    RoundDiv(RoundDiv(StepWeight(v, ch) * V, ADC_MAX)
               * SIGNAL_AMPLIFICATION(v) * EnvelopeGain(v)[1],
             EnvelopeGain(v)[2] * CALIBRATION_SAMPLES * BUFFER_SIZE)

\* the tolerance: one count of the rectified sample, which the conversion
\* to int drops, through the envelope gain and the amplification
GainTolerance(v) == Amplify(v, EnvelopeOf(v, BUFFER_SIZE))

\* C22 as stated, the gain chain being the gain constants on the way to the
\* baseline: after CALIBRATION_SAMPLES cycles of a constant reading V the
\* baseline is V times the envelope gain times the amplification.
C22_Original ==
    cycles = CALIBRATION_SAMPLES =>
      \A ch \in Channels(variant) : \A V \in RawValues(variant) :
         ConstantDrive(variant, ch, V) =>
            Abs(baseline[ch] - Amplify(variant, EnvelopeOf(variant, BUFFER_SIZE * V)))
               <= GainTolerance(variant)

\* C22 (amended): after CALIBRATION_SAMPLES cycles of a constant reading V
\* the baseline is V times a fixed factor of the channel, to within one
\* count through the gains; the factor is the gain constants times the mean
\* moving average of the magnitude of the filter's response to a constant
\* unit reading, far below the product of the gain constants.  The
\* calibrated flag changes once, on the CALIBRATION_SAMPLES-th cycle.
C22_ConstantDriveBaseline ==
    /\ [](cycles = CALIBRATION_SAMPLES =>
            \A ch \in Channels(variant) : \A V \in RawValues(variant) :
               ConstantDrive(variant, ch, V) =>
                  /\ Abs(baseline[ch] - StepBaseline(variant, ch, V))
                        <= GainTolerance(variant)
                  /\ 2 * StepBaseline(variant, ch, V) <=
                        Amplify(variant, EnvelopeOf(variant, BUFFER_SIZE * V)))
    /\ [](is_calibrated <=> cycles >= CALIBRATION_SAMPLES)
    /\ [][is_calibrated' # is_calibrated =>
            /\ ~is_calibrated
            /\ cycles' = CALIBRATION_SAMPLES]_vars

\* the transition after a constant non-zero reading that is not full scale
C22_Witness ==
    /\ cycles = CALIBRATION_SAMPLES
    /\ is_calibrated
    /\ \E ch \in Channels(variant) :
         /\ ConstantDrive(variant, ch, LowReading)
         /\ baseline[ch] > GainTolerance(variant)

\* C23 as stated: from one push to the next the value the envelope
\* detector returns changes by at most |new - evicted| / BUFFER_SIZE (to
\* the rounding of the two values).
C23_Original ==
    [][cyc'.stage # "idle" =>
         \A ch \in Channels(variant) :
            BUFFER_SIZE * Abs(EnvelopeOf(variant, sum'[ch])
                              - EnvelopeOf(variant, sum[ch]))
               <= Abs(cyc'.abs_emg[ch] - buffer[ch][index[ch] + 1]) * SCALE
                    + BUFFER_SIZE]_vars

\* C23 (amended): a push moves the running sum by new - evicted, so the
\* moving average moves by (new - evicted) / BUFFER_SIZE and the value the
\* detector returns by that times the detector's gain (2.0, 3.0, 2.5), to
\* the rounding of the two values: the bound is gain * |new - evicted| /
\* BUFFER_SIZE, and it is attained.
C23_EnvelopeSlewBound ==
    [][cyc'.stage # "idle" =>
         \A ch \in Channels(variant) :
            LET g     == EnvelopeGain(variant)
                delta == cyc'.abs_emg[ch] - buffer[ch][index[ch] + 1]
                move  == EnvelopeOf(variant, sum'[ch])
                           - EnvelopeOf(variant, sum[ch])
            IN  /\ sum'[ch] - sum[ch] = delta
                /\ Abs(g[2] * BUFFER_SIZE * move - g[1] * delta * SCALE)
                      <= g[2] * BUFFER_SIZE]_vars

\* a push that evicted a non-zero value, stored a larger one and moved the
\* returned envelope by more than the difference over BUFFER_SIZE
C23_Witness ==
    /\ cyc.stage # "idle"
    /\ \E ch \in Channels(variant) :
         /\ Len(pushed[ch]) > BUFFER_SIZE
         /\ cyc.evicted[ch] > 0
         /\ cyc.abs_emg[ch] > cyc.evicted[ch]
         /\ BUFFER_SIZE *
              (EnvelopeOf(variant, sum[ch])
                 - EnvelopeOf(variant, sum[ch] - cyc.abs_emg[ch] + cyc.evicted[ch]))
              > (cyc.abs_emg[ch] - cyc.evicted[ch]) * SCALE + BUFFER_SIZE

\* the product of the gain constants on the way to the output: envelope
\* gain, amplification and post-gain (3 * 50 * 2 in the 2-channel sketch)
TotalGain(v) ==
    (SIGNAL_AMPLIFICATION(v) * EnvelopeGain(v)[1] * PostGain(v)) \div EnvelopeGain(v)[2]

\* C24 as stated: in the 2-channel sketch the emitted output is 300 times
\* the moving average of the rectified filtered signal, less the baseline
\* (once, or doubled by the output boost) when the envelope is above the
\* threshold, and 0 otherwise.
C24_TotalGain300 ==
    (variant = "two" /\ cyc.stage = "pipeline") =>
       /\ TotalGain(variant) = 300
       /\ \A ch \in Channels(variant) :
            LET avg300 == RoundDiv(TotalGain(variant) * sum[ch] * SCALE, BUFFER_SIZE)
            IN  IF cyc.envelope[ch] > cyc.threshold[ch]
                THEN \E k \in {1, 2} :
                        Abs(cyc.output[ch] - (avg300 - k * baseline[ch])) <= SCALE
                ELSE cyc.output[ch] = 0

\* a cycle of the 2-channel sketch above the threshold: the output is the
\* doubled square-root compression of envelope - baseline
C24_Witness ==
    /\ variant = "two"
    /\ cyc.stage = "pipeline"
    /\ \E ch \in Channels(variant) :
         /\ cyc.envelope[ch] > cyc.threshold[ch]
         /\ cyc.rawOut[ch] = cyc.envelope[ch] - baseline[ch]
         /\ cyc.output[ch] = 2 * SqrtScaled(cyc.rawOut[ch], 5)
         /\ cyc.output[ch] < cyc.rawOut[ch]

\* C25: a calibrated cycle runs read, filter, envelope, baseline update,
\* threshold, peak update, quality report (if due), data line, each stage on
\* the result of the one before.  A QUALITY line comes directly before the
\* EMG line of its cycle; its SNRs are peak / baseline with the baseline the
\* EMG line prints (already smoothed with this cycle's envelope) and the
\* peak that already holds this cycle's output.
C25_StageOrder ==
    /\ [](cyc.stage = "pipeline" =>
            /\ \A ch \in Channels(variant) :
                 /\ cyc.abs_emg[ch] = AbsEmg(cyc.filtered[ch])
                 /\ cyc.envelope[ch] = Amplify(variant, EnvelopeOf(variant, sum[ch]))
                 /\ baseline[ch] =
                       UpdateBaseline(variant, cyc.baseBefore[ch], cyc.envelope[ch])
                 /\ cyc.threshold[ch] = Threshold(variant, baseline[ch], noise_floor)
                 /\ cyc.output[ch] =
                       OutputOf(variant, cyc.envelope[ch], baseline[ch], noise_floor)
                 /\ peak[ch] = UpdatePeak(variant, cyc.peakBefore[ch], cyc.output[ch])
                 /\ peak[ch] >= cyc.output[ch]
            /\ cyc.quality <=> Reported(serial)
            /\ \A i \in 1..Len(serial) :
                 serial[i].tag = "QUALITY" =>
                    /\ i = 1
                    /\ serial[2].tag = "EMG"
                    /\ \A ch \in Channels(variant) :
                         /\ serial[1].vals[ch] =
                               PrintFloat(CalculateSNR(peak[ch], baseline[ch]), 2)
                         /\ serial[2].bases[ch] =
                               PrintFloat(baseline[ch], EmgDigits(variant))
                         /\ serial[2].vals[ch] =
                               PrintFloat(cyc.output[ch], EmgDigits(variant)))
    /\ [][cyc'.stage = "pipeline" =>
            \A ch \in Channels(variant) :
               cyc'.filtered[ch] =
                  EMGFilter(FilterCoefs(variant, ch), cyc'.raw[ch] * SCALE, z[ch])[1]]_vars

\* a quality report on a cycle whose output raised the peak and whose
\* envelope moved the baseline: the SNR printed is not the one the peak or
\* the baseline of the cycle before would give
C25_Witness ==
    /\ cyc.stage = "pipeline"
    /\ cyc.quality
    /\ serial[1].tag = "QUALITY"
    /\ serial[2].tag = "EMG"
    /\ \E ch \in Channels(variant) :
         /\ cyc.baseBefore[ch] > 0
         /\ baseline[ch] # cyc.baseBefore[ch]
         /\ peak[ch] = cyc.output[ch]
         /\ peak[ch] > cyc.peakBefore[ch]
         /\ serial[1].vals[ch] #
               PrintFloat(CalculateSNR(cyc.peakBefore[ch], baseline[ch]), 2)
         /\ serial[1].vals[ch] #
               PrintFloat(CalculateSNR(peak[ch], cyc.baseBefore[ch]), 2)

\* the SNRs of all channels: x on channel ch, the sentinel on the others
SnrsWith(v, ch, x) ==
    [i \in 1..NumChannels(v) |-> IF i = ch THEN x ELSE SNR_SENTINEL * SCALE]

\* C26: a QUALITY line carries LOW_QUALITY exactly when some channel's SNR
\* (peak / baseline, 999 for a zero baseline) is strictly below MIN_SNR, and
\* GOOD otherwise: an SNR of exactly MIN_SNR is GOOD, and a channel with a
\* zero baseline never makes the line LOW_QUALITY, whatever its peak.
C26_QualityClassification ==
    /\ \A i \in 1..Len(serial) :
         serial[i].tag = "QUALITY" =>
            /\ serial[i].token \in {"LOW_QUALITY", "GOOD"}
            /\ serial[i].token = "LOW_QUALITY" <=>
                  \E ch \in Channels(variant) :
                     CalculateSNR(peak[ch], baseline[ch]) < MIN_SNR(variant) * SCALE
            /\ serial[i].token = "LOW_QUALITY" =>
                  \E ch \in Channels(variant) :
                     baseline[ch] # 0 /\ peak[ch] < MIN_SNR(variant) * baseline[ch]
    /\ \A ch \in Channels(variant) :
         /\ QualityToken(variant, SnrsWith(variant, ch, MIN_SNR(variant) * SCALE))
               = "GOOD"
         /\ QualityToken(variant, SnrsWith(variant, ch, MIN_SNR(variant) * SCALE - 1))
               = "LOW_QUALITY"
         /\ \A pk \in {0, 1, SCALE, peak[ch], cyc.output[ch]} :
               QualityToken(variant, SnrsWith(variant, ch, CalculateSNR(pk, 0)))
                  = "GOOD"

\* a LOW_QUALITY report caused by one channel while another, with a zero
\* baseline, reports the sentinel
C26_Witness ==
    /\ cyc.quality
    /\ serial[1].tag = "QUALITY"
    /\ serial[1].token = "LOW_QUALITY"
    /\ \E i \in Channels(variant) : \E j \in Channels(variant) :
         /\ baseline[i] = 0
         /\ serial[1].vals[i] = SNR_SENTINEL * Pow10(2)
         /\ baseline[j] > 0
         /\ CalculateSNR(peak[j], baseline[j]) < MIN_SNR(variant) * SCALE

\* C27: every buffer index is in 0..BUFFER_SIZE-1 after any number of
\* pushes (it is the number of pushes modulo BUFFER_SIZE), and a push reads
\* and writes the slot at the index only: the value it subtracts from the
\* running sum is the one in the slot it overwrites, which is the oldest of
\* the last BUFFER_SIZE values pushed (0 while the buffer is filling), and
\* no other slot changes.
C27_IndexInBounds ==
    /\ [](\A ch \in Channels(variant) :
            /\ index[ch] \in 0..(BUFFER_SIZE - 1)
            /\ index[ch] = Len(pushed[ch]) % BUFFER_SIZE
            /\ DOMAIN buffer[ch] = 1..BUFFER_SIZE)
    /\ [][cyc'.stage # "idle" =>
            \A ch \in Channels(variant) :
               LET n   == Len(pushed[ch])
                   new == cyc'.abs_emg[ch]
                   old == buffer[ch][index[ch] + 1]
               IN  /\ cyc'.slot[ch] = index[ch]
                   /\ index'[ch] = (index[ch] + 1) % BUFFER_SIZE
                   /\ sum[ch] - (sum'[ch] - new) = old
                   /\ cyc'.evicted[ch] = old
                   /\ old = IF n >= BUFFER_SIZE
                            THEN pushed[ch][n - BUFFER_SIZE + 1] ELSE 0
                   /\ buffer'[ch][index[ch] + 1] = new
                   /\ \A i \in 1..BUFFER_SIZE :
                        i # index[ch] + 1 => buffer'[ch][i] = buffer[ch][i]]_vars

\* a push after the index has wrapped: it went to slot 0 again and evicted
\* the non-zero value pushed BUFFER_SIZE pushes before
C27_Witness ==
    /\ cyc.stage # "idle"
    /\ \E ch \in Channels(variant) :
         /\ Len(pushed[ch]) > BUFFER_SIZE
         /\ cyc.slot[ch] = 0
         /\ index[ch] = 1 % BUFFER_SIZE
         /\ cyc.evicted[ch] > 0
         /\ cyc.evicted[ch] = pushed[ch][Len(pushed[ch]) - BUFFER_SIZE]
         /\ cyc.abs_emg[ch] # cyc.evicted[ch]

Completes(lines) ==
    Len(SelectSeq(lines, LAMBDA l : l.tag = "CALIBRATION_COMPLETE"))

\* C30: CALIBRATION_COMPLETE is written by the CALIBRATION_SAMPLES-th cycle,
\* once, and by no other poll; that cycle writes no EMG and no QUALITY
\* line, every poll that writes one comes after it, and the cycle after it
\* writes the first EMG line.
C30_CompleteOnceBeforeData ==
    /\ [](/\ Completes(serial) =
                IF cyc.stage = "calibration" /\ cycles = CALIBRATION_SAMPLES
                THEN 1 ELSE 0
          /\ Completes(serial) > 0 =>
               \A i \in 1..Len(serial) : ~IsData(serial[i])
          /\ (\E i \in 1..Len(serial) : IsData(serial[i])) =>
               /\ cycles >= CALIBRATION_SAMPLES + 1
               /\ is_calibrated
          /\ Len(EmgLines(serial)) = IF cyc.stage = "pipeline" THEN 1 ELSE 0
          /\ cycles <= CALIBRATION_SAMPLES => cyc.stage # "pipeline")
    /\ [][/\ Completes(serial') > 0 <=>
               (cycles = CALIBRATION_SAMPLES - 1 /\ cycles' = CALIBRATION_SAMPLES)
          /\ (cycles = CALIBRATION_SAMPLES /\ cycles' = cycles + 1) =>
               Len(EmgLines(serial')) = 1
          /\ cycles' \in {cycles, cycles + 1}]_vars

\* the transition cycle: CALIBRATION_COMPLETE and the baseline report, no
\* data line
C30_Witness ==
    /\ cycles = CALIBRATION_SAMPLES
    /\ cyc.stage = "calibration"
    /\ Completes(serial) = 1
    /\ \E i \in 1..Len(serial) : serial[i].tag = "BASELINES"
    /\ EmgLines(serial) = <<>>

\* C31: a sample cycle writes a QUALITY line exactly when it starts
\* calibrated and millis() exceeds last_quality_check by strictly more than
\* QUALITY_CHECK_INTERVAL, and then last_quality_check takes the time of the
\* poll; it changes at no other time, so it is 0 until the first report and
\* the time of the latest report afterwards, and two consecutive reports
\* are more than QUALITY_CHECK_INTERVAL ms apart.  The first calibrated
\* cycle, cycle CALIBRATION_SAMPLES + 1, always reports.
C31_QualityInterval ==
    /\ [](/\ cycles <= CALIBRATION_SAMPLES => last_quality_check = 0
          /\ cycles > CALIBRATION_SAMPLES =>
               /\ last_quality_check > QUALITY_CHECK_INTERVAL
               /\ last_quality_check <= clock \div 1000
          /\ Reported(serial) =>
               /\ cyc.stage = "pipeline"
               /\ cyc.quality
               /\ last_quality_check = clock \div 1000
               /\ Len(SelectSeq(serial, LAMBDA l : l.tag = "QUALITY")) = 1
          /\ (cyc.stage = "pipeline" /\ cycles = CALIBRATION_SAMPLES + 1) =>
               Reported(serial))
    /\ [][/\ cyc'.stage # "idle" =>
               (Reported(serial') <=>
                  /\ is_calibrated
                  /\ clock' \div 1000 - last_quality_check > QUALITY_CHECK_INTERVAL)
          /\ Reported(serial') =>
               /\ last_quality_check' = clock' \div 1000
               /\ last_quality_check' - last_quality_check > QUALITY_CHECK_INTERVAL
          /\ ~Reported(serial') => last_quality_check' = last_quality_check]_vars

\* a second report: a cycle after the first calibrated one wrote a QUALITY
\* line, more than the interval after the end of setup()
C31_Witness ==
    /\ cyc.stage = "pipeline"
    /\ cycles >= CALIBRATION_SAMPLES + 2
    /\ Reported(serial)
    /\ last_quality_check = clock \div 1000
    /\ last_quality_check > SetupDelayMs(variant) + QUALITY_CHECK_INTERVAL

IsMovement(line) == line.tag \in {"MOVEMENT_DETECTED", "MOVEMENT_UP"}

\* the outputs of all channels: x on channel ch, 0 on the others
OutputsWith(v, ch, x) == [i \in 1..NumChannels(v) |-> IF i = ch THEN x ELSE 0]

\* C32: in the 2-channel and the 1-channel sketch a calibrated cycle writes
\* a MOVEMENT_DETECTED (MOVEMENT_UP) line exactly when some channel's output
\* of that cycle is strictly above 0.1; the line is the last of the poll and
\* comes directly after the cycle's EMG line; no other poll writes one.  In
\* the 4-channel sketch no such line exists: the transition writes
\* CALIBRATION_COMPLETE and the baseline report, and every line after them
\* is an EMG or a QUALITY line.
C32_MovementLine ==
    LET mv == {i \in 1..Len(serial) : IsMovement(serial[i])}
    IN  /\ cyc.stage # "pipeline" => mv = {}
        /\ variant = "four" =>
             /\ mv = {}
             /\ is_calibrated =>
                  IF cyc.stage = "calibration"
                  THEN [i \in 1..Len(serial) |-> serial[i].tag] =
                          <<"CALIBRATION_COMPLETE", "BASELINES">>
                  ELSE \A i \in 1..Len(serial) : IsData(serial[i])
        /\ (variant # "four" /\ cyc.stage = "pipeline") =>
             /\ mv # {} <=>
                   \E ch \in Channels(variant) : cyc.output[ch] * 10 > SCALE
             /\ \A i \in mv :
                  /\ i = Len(serial)
                  /\ i > 1
                  /\ serial[i - 1].tag = "EMG"
                  /\ serial[i].tag =
                        IF variant = "two" THEN "MOVEMENT_DETECTED" ELSE "MOVEMENT_UP"
                  /\ serial[i].vals = PrintAll(cyc.output, 2)
        /\ variant # "four" =>
             \A ch \in Channels(variant) :
                /\ ~MovementDue(variant, OutputsWith(variant, ch, 0))
                /\ ~MovementDue(variant, OutputsWith(variant, ch, SCALE \div 10))
                /\ MovementDue(variant, OutputsWith(variant, ch, SCALE \div 10 + 1))

\* a cycle of the 2-channel sketch with one channel active and the other
\* at 0: the debug line follows the EMG line
C32_Witness ==
    /\ variant = "two"
    /\ cyc.stage = "pipeline"
    /\ \E i \in Channels(variant) : \E j \in Channels(variant) :
         cyc.output[i] * 10 > SCALE /\ cyc.output[j] = 0
    /\ Len(serial) >= 2
    /\ serial[Len(serial)].tag = "MOVEMENT_DETECTED"
    /\ serial[Len(serial) - 1].tag = "EMG"

=============================================================================
